---------------------------- MODULE Spec2Model ----------------------------
(***************************************************************************)
(* A model of the Jack compiler front end: the Tokenizer (tokenizer.rs),   *)
(* the recursive-descent Parser (parser.rs) and the driver (main.rs).      *)
(*                                                                         *)
(* Text is a sequence of characters; a character is a one-element string,  *)
(* except the two non-ASCII characters U00E9 and U20AC, which stand for    *)
(* a 2-byte and a 3-byte UTF-8 scalar value.                               *)
(***************************************************************************)
EXTENDS Integers, Sequences, FiniteSets, TLC

VARIABLES
    source,   \* tokens_for_file: the text read from the file
    code,     \* Tokenizer.code: the remaining text
    result,   \* tokens_for_file: the tokens pushed so far
    last,     \* tokens_for_file: the token the last call of next() returned
    tstate,   \* tokens_for_file: "loop" | "returned" | "panicked"
    input,    \* vm_from_tokens: the tokens handed to Parser::new, and how
              \* they were made
    parser,   \* the Parser: its token queue, its tree, its history
    pstate,   \* Parser::parse: "ready" | "returned" | "aborted"
    dir,      \* main: the entries read_dir yields, each a name and a text
    cur,      \* main: the entry the iterator is at
    step,     \* main: the statement of the for_each closure that is next
    dstate,   \* main: "start" | "iterate" | "closure" | "done" | "aborted"
    held,     \* main: the closure's locals, tokens and vm
    disk,     \* the output files created so far, each a name and a content
    compiled, \* history: the entries vm_from_tokens has returned for
    failed,   \* history: the entries whose tokenizing or parsing aborted
    class_scope,       \* SymbolTable (class-scope): name -> symbol
    subroutine_scope,  \* SymbolTable (subroutine-scope): name -> symbol
    operation,         \* history: the last operation on the symbol tables,
                       \* with both scopes as they were before it
    operations         \* history: the number of operations so far

tokVars == <<source, code, result, last, tstate>>

parVars == <<input, parser, pstate>>

drvVars == <<dir, cur, step, dstate, held, disk, compiled, failed>>

symVars == <<class_scope, subroutine_scope, operation, operations>>

vars == <<source, code, result, last, tstate, input, parser, pstate,
          dir, cur, step, dstate, held, disk, compiled, failed,
          class_scope, subroutine_scope, operation, operations>>

(***************************************************************************)
(* Bounds of the model.                                                    *)
(***************************************************************************)
MaxTextLen == 4

MaxSubroutines == 2

MaxShortLen == 4

MaxReplaced == 12

MaxFiles == 2

\* The operations on the symbol tables in one run.
MaxOperations == 4

(***************************************************************************)
(* Sequence helpers.                                                       *)
(***************************************************************************)
Take(s, n) == SubSeq(s, 1, n)

Drop(s, n) == SubSeq(s, n + 1, Len(s))

IsPrefix(p, s) == Len(p) <= Len(s) /\ Take(s, Len(p)) = p

MinOf(S) == CHOOSE x \in S : \A y \in S : x <= y

MaxOf(S) == CHOOSE x \in S : \A y \in S : x >= y

RECURSIVE RunLen(_, _)
\* The length of the longest prefix of s whose characters all lie in C.
RunLen(s, C) ==
    IF s # <<>> /\ Head(s) \in C THEN 1 + RunLen(Tail(s), C) ELSE 0

(***************************************************************************)
(* Characters.                                                             *)
(***************************************************************************)
NL == "\n"

QUOTE == "\""

Alpha == {"a", "b", "c", "d", "e", "f", "g", "h", "i", "j", "k", "l", "m",
          "n", "o", "p", "q", "r", "s", "t", "u", "v", "w", "x", "y", "z",
          "A", "B", "C", "D", "E", "F", "G", "H", "I", "J", "K", "L", "M",
          "N", "O", "P", "Q", "R", "S", "T", "U", "V", "W", "X", "Y", "Z"}

Digit == {"0", "1", "2", "3", "4", "5", "6", "7", "8", "9"}

SymbolChars == {"{", "}", "(", ")", "[", "]", ".", ",", ";", "+", "-", "*",
                "/", "&", "|", "<", ">", "=", "~"}

WhiteSpace == {" ", NL, "\t", "\r"}

MultiByte == {"U00E9", "U20AC"}

Chars == Alpha \cup Digit \cup SymbolChars \cup WhiteSpace \cup MultiByte
            \cup {"_", QUOTE, "#"}

\* The number of bytes of a character's UTF-8 encoding.
Utf8Len(c) == IF c = "U00E9" THEN 2 ELSE IF c = "U20AC" THEN 3 ELSE 1

RECURSIVE ByteLen(_)
\* str::len(): the length of a text in bytes.
ByteLen(s) == IF s = <<>> THEN 0 ELSE Utf8Len(Head(s)) + ByteLen(Tail(s))

(***************************************************************************)
(* The reserved words, in the order of the KEYWORDS alternation.           *)
(***************************************************************************)
kw_class == <<"c", "l", "a", "s", "s">>
kw_constructor == <<"c", "o", "n", "s", "t", "r", "u", "c", "t", "o", "r">>
kw_function == <<"f", "u", "n", "c", "t", "i", "o", "n">>
kw_method == <<"m", "e", "t", "h", "o", "d">>
kw_field == <<"f", "i", "e", "l", "d">>
kw_static == <<"s", "t", "a", "t", "i", "c">>
kw_var == <<"v", "a", "r">>
kw_int == <<"i", "n", "t">>
kw_char == <<"c", "h", "a", "r">>
kw_boolean == <<"b", "o", "o", "l", "e", "a", "n">>
kw_void == <<"v", "o", "i", "d">>
kw_true == <<"t", "r", "u", "e">>
kw_false == <<"f", "a", "l", "s", "e">>
kw_null == <<"n", "u", "l", "l">>
kw_this == <<"t", "h", "i", "s">>
kw_let == <<"l", "e", "t">>
kw_do == <<"d", "o">>
kw_if == <<"i", "f">>
kw_else == <<"e", "l", "s", "e">>
kw_while == <<"w", "h", "i", "l", "e">>
kw_return == <<"r", "e", "t", "u", "r", "n">>

KeywordList ==
    <<kw_class, kw_constructor, kw_function, kw_method, kw_field, kw_static,
      kw_var, kw_int, kw_char, kw_boolean, kw_void, kw_true, kw_false,
      kw_null, kw_this, kw_let, kw_do, kw_if, kw_else, kw_while, kw_return>>

(***************************************************************************)
(* The six patterns.  Each gives the matched prefix of the text, or <<>>   *)
(* when the pattern does not match (no pattern matches the empty text).    *)
(***************************************************************************)
\* ^//.*  : two slashes and everything up to the end of the line.
COMMENTS(s) ==
    IF Len(s) >= 2 /\ s[1] = "/" /\ s[2] = "/"
    THEN Take(s, 2 + RunLen(Drop(s, 2), Chars \ {NL}))
    ELSE <<>>

\* ^(class|constructor|...) : the first alternative that is a prefix.
KEYWORDS(s) ==
    LET hits == {i \in 1..Len(KeywordList) : IsPrefix(KeywordList[i], s)}
    IN  IF hits = {} THEN <<>> ELSE KeywordList[MinOf(hits)]

\* ^[\{\}\(\)\[\].,;\+\-\*/&|<>=~] : one character of the set.
SYMBOLS(s) ==
    IF s # <<>> /\ Head(s) \in SymbolChars THEN <<Head(s)>> ELSE <<>>

\* ^[0-9]{1,5} : one to five digits, as many as there are.
INTEGER_CONSTANTS(s) ==
    LET n == RunLen(s, Digit) IN Take(s, IF n > 5 THEN 5 ELSE n)

\* ^".*" : a quote, then greedily up to the last quote of the same line.
STRING_CONSTANTS(s) ==
    IF s = <<>> \/ Head(s) # QUOTE THEN <<>>
    ELSE LET line == 1 + RunLen(Tail(s), Chars \ {NL})
             closing == {j \in 2..line : s[j] = QUOTE}
         IN  IF closing = {} THEN <<>> ELSE Take(s, MaxOf(closing))

\* ^[_[:alpha:]][_[:alnum:]]* : ASCII letters, digits and underscores.
IDENTIFIERS(s) ==
    IF s # <<>> /\ Head(s) \in Alpha \cup {"_"}
    THEN Take(s, 1 + RunLen(Tail(s), Alpha \cup Digit \cup {"_"}))
    ELSE <<>>

(***************************************************************************)
(* Tokenizer.                                                              *)
(***************************************************************************)
Token(type, value) == [token |-> type, value |-> value]

EndOfFile == Token("EndOfFile", <<>>)

RECURSIVE trim_start(_)
\* str::trim_start(): the text without its leading white space.
trim_start(s) ==
    IF s # <<>> /\ Head(s) \in WhiteSpace THEN trim_start(Tail(s)) ELSE s

\* Removes the first character `count` times; String::remove(0) panics once
\* the text is empty.
remove_n_first_chars(text, count) ==
    IF count > Len(text)
    THEN [code |-> <<>>, panic |-> TRUE]
    ELSE [code |-> Drop(text, count), panic |-> FALSE]

\* A matched token: value.len() characters are removed, the token returned.
Matched(tok, text) ==
    LET r == remove_n_first_chars(text, ByteLen(tok.value))
    IN  [token |-> tok, code |-> r.code, panic |-> r.panic]

\* A next() that steps over the character no pattern matches.
NoMatch_skips(text) ==
    [token |-> EndOfFile, code |-> Drop(text, 1), panic |-> FALSE]

\* No pattern matches: the EndOfFile token, the text as it is.
NoMatch(text) == [token |-> EndOfFile, code |-> text, panic |-> FALSE]

\* The token patterns in the order next() tries them: the token of the
\* first that matches, EndOfFile when none does.
first_match(c) ==
    IF KEYWORDS(c) # <<>> THEN Token("Keyword", KEYWORDS(c))
    ELSE IF SYMBOLS(c) # <<>> THEN Token("Symbol", SYMBOLS(c))
    ELSE IF INTEGER_CONSTANTS(c) # <<>>
         THEN Token("IntegerConstant", INTEGER_CONSTANTS(c))
    ELSE IF STRING_CONSTANTS(c) # <<>>
         THEN Token("StringConstant", STRING_CONSTANTS(c))
    ELSE IF IDENTIFIERS(c) # <<>> THEN Token("Identifier", IDENTIFIERS(c))
    ELSE EndOfFile

RECURSIVE next(_)
\* Tokenizer::next on the remaining text: the token returned, the text
\* left, and whether the call panicked.
next(text) ==
    LET c == trim_start(text) IN
    IF COMMENTS(c) # <<>> THEN
        LET r == remove_n_first_chars(c, ByteLen(COMMENTS(c)))
        IN  IF r.panic
            THEN [token |-> EndOfFile, code |-> r.code, panic |-> TRUE]
            ELSE next(r.code)
    ELSE IF first_match(c) # EndOfFile THEN Matched(first_match(c), c)
    ELSE NoMatch(c)

(***************************************************************************)
(* SymbolTable.  The symbol tables are not among the source files; they    *)
(* follow the specification: a scope maps a declared name to a symbol      *)
(* (kind, declared type, slot index).  A class compilation has a           *)
(* class-scope, for Static and Field, and a subroutine-scope, for Argument *)
(* and Local.                                                              *)
(***************************************************************************)
Symbol(kind, type, index) == [kind |-> kind, type |-> type, index |-> index]

\* lookup that finds nothing.
NoSymbol == Symbol("None", <<>>, 0)

ClassKinds == {"Static", "Field"}

SubroutineKinds == {"Argument", "Local"}

\* A table without entries.
EmptyScope == <<>>

\* The slot indices the symbols of a kind hold in a scope.
indices_of(scope, kind) ==
    {scope[n].index : n \in {m \in DOMAIN scope : scope[m].kind = kind}}

\* 1 + max(existing indices of that kind in that scope), defaulting to 0.
next_index(scope, kind) ==
    IF indices_of(scope, kind) = {} THEN 0 ELSE 1 + MaxOf(indices_of(scope, kind))

\* declare(name, kind, type): the next index of the kind, then the entry of
\* the name is inserted or overwritten.
declare(scope, name, kind, type) ==
    [n \in DOMAIN scope \cup {name} |->
        IF n = name THEN Symbol(kind, type, next_index(scope, kind)) ELSE scope[n]]

\* lookup(name): subroutine-scope, then class-scope.
lookup(subroutine, class, name) ==
    IF name \in DOMAIN subroutine THEN subroutine[name]
    ELSE IF name \in DOMAIN class THEN class[name]
    ELSE NoSymbol

\* resetSubroutineScope(): all subroutine-scope entries are discarded.
resetSubroutineScope(subroutine) == EmptyScope

\* countOf(kind)
countOf(scope, kind) == Cardinality({n \in DOMAIN scope : scope[n].kind = kind})

\* The names and types the operations are run with.
SymbolNames == {<<"x">>, <<"y">>, <<"z">>}

SymbolTypes == {kw_int, <<"A">>}

Operation(op, scope, name, kind) ==
    [op |-> op, scope |-> scope, name |-> name, kind |-> kind,
     class_before |-> class_scope, subroutine_before |-> subroutine_scope]

SymInit ==
    /\ class_scope = EmptyScope
    /\ subroutine_scope = EmptyScope
    /\ operation = [op |-> "new", scope |-> "", name |-> <<>>, kind |-> "",
                    class_before |-> EmptyScope, subroutine_before |-> EmptyScope]
    /\ operations = 0

SymIdle ==
    /\ class_scope = EmptyScope
    /\ subroutine_scope = EmptyScope
    /\ operation = [op |-> "idle", scope |-> "", name |-> <<>>, kind |-> "",
                    class_before |-> EmptyScope, subroutine_before |-> EmptyScope]
    /\ operations = 0

\* declare on the class-scope
DeclareInClass ==
    /\ operations < MaxOperations
    /\ \E name \in SymbolNames, kind \in ClassKinds, type \in SymbolTypes :
        /\ class_scope' = declare(class_scope, name, kind, type)
        /\ operation' = Operation("declare", "class", name, kind)
    /\ operations' = operations + 1
    /\ UNCHANGED subroutine_scope

\* declare on the subroutine-scope
DeclareInSubroutine ==
    /\ operations < MaxOperations
    /\ \E name \in SymbolNames, kind \in SubroutineKinds, type \in SymbolTypes :
        /\ subroutine_scope' = declare(subroutine_scope, name, kind, type)
        /\ operation' = Operation("declare", "subroutine", name, kind)
    /\ operations' = operations + 1
    /\ UNCHANGED class_scope

\* resetSubroutineScope, at the start of a subroutine declaration
ResetSubroutineScope ==
    /\ operations < MaxOperations
    /\ subroutine_scope' = resetSubroutineScope(subroutine_scope)
    /\ operation' = Operation("reset", "subroutine", <<>>, "")
    /\ operations' = operations + 1
    /\ UNCHANGED class_scope

(***************************************************************************)
(* Parser.  A routine of parser.rs is an operator from parser state to     *)
(* parser state.  The state holds the token queue (tokens), whether the    *)
(* run is still alive (ok: FALSE once an unwrap() or panic! has aborted    *)
(* it), and the tree built so far (out), kept as the sequence of events    *)
(* Tree::to_xml renders: a node's opening, its children, its closing.      *)
(* History fields, which no routine reads: unexpected (a consumed token    *)
(* was not the one the grammar requires there), lookahead (for each        *)
(* two-token disambiguation, the queue before the lookahead consume and    *)
(* the queue the dispatched routine saw) and stalled (an iteration of a    *)
(* loop, or a call of parse_term or parse_expression, ended with a queue   *)
(* not shorter than the one it began with).                                *)
(* The label counter and the labels, the two symbol tables and the calls   *)
(* emitted are not part of parser.rs; they follow the specification of     *)
(* the code generator, at the places of the routines where it puts them.   *)
(***************************************************************************)
Open(name) == [k |-> "open", name |-> name, value |-> <<>>]

Close(name) == [k |-> "close", name |-> name, value |-> <<>>]

Leaf(name, value) == [k |-> "leaf", name |-> name, value |-> value]

\* Parser::new
Parser(queue) ==
    [tokens |-> queue, ok |-> TRUE, out |-> <<>>, unexpected |-> FALSE,
     lookahead |-> <<>>, class_name |-> <<>>, label_counter |-> 0,
     labels |-> <<>>, class_scope |-> EmptyScope,
     subroutine_scope |-> EmptyScope, calls |-> <<>>, stalled |-> FALSE]

\* unwrap() on None, or panic!: the run aborts.
Aborted(st) == [st EXCEPT !.ok = FALSE]

\* Node::new, seen from the event sequence.
open(st, name) == IF st.ok THEN [st EXCEPT !.out = Append(@, Open(name))] ELSE st

\* The node is complete and returned to its parent.
close(st, name) ==
    IF st.ok THEN [st EXCEPT !.out = Append(@, Close(name))] ELSE st

\* Parser::peek is possible: the run is alive and the queue is not empty.
can_peek(st) == st.ok /\ st.tokens # <<>>

\* Parser::peek: the front token.
peek(st) == Head(st.tokens)

\* Parser::next, the token held by the caller: the front token leaves the queue.
pop(st) == IF can_peek(st) THEN [st EXCEPT !.tokens = Tail(@)] ELSE Aborted(st)

\* The token is put back twice.
insert_front_twice(st, token) ==
    IF st.ok THEN [st EXCEPT !.tokens = <<token, token>> \o @] ELSE st

\* tokens.insert(0, token)
insert_front(st, token) ==
    IF st.ok THEN [st EXCEPT !.tokens = <<token>> \o @] ELSE st

\* History: an iteration or a call began with the queue of before and ended,
\* alive, with the queue of after.
measured(before, after) ==
    IF after.ok /\ Len(after.tokens) >= Len(before.tokens)
    THEN [after EXCEPT !.stalled = TRUE]
    ELSE after

AllKinds == {"Keyword", "Symbol", "IntegerConstant", "StringConstant",
             "Identifier"}

\* Whether a token is what the grammar requires: of one of the kinds, and,
\* when values are named, with one of these values.
Required(token, kinds, values) ==
    token.token \in kinds /\ (values = {} \/ token.value \in values)

\* add_child(Leaf::new(name, self.next().value)).  kinds and values say what
\* the grammar requires at this place; they only feed the history field.
next_leaf(st, name, kinds, values) ==
    IF can_peek(st)
    THEN [st EXCEPT !.tokens = Tail(@),
                    !.out = Append(@, Leaf(name, peek(st).value)),
                    !.unexpected = @ \/ ~Required(peek(st), kinds, values)]
    ELSE Aborted(st)

symbol(st, c) == next_leaf(st, "symbol", {"Symbol"}, {<<c>>})

\* History: the dispatched routine is about to read the front of st.tokens;
\* before is the queue as it was before the lookahead consume.
dispatched(st, before) ==
    IF st.ok
    THEN [st EXCEPT !.lookahead = Append(@, [before |-> before, seen |-> st.tokens])]
    ELSE st

DigitText == <<"0", "1", "2", "3", "4", "5", "6", "7", "8", "9">>

RECURSIVE Decimal(_)
\* format!("{}", n) of an unsigned number.
Decimal(n) ==
    IF n < 10 THEN <<DigitText[n + 1]>>
    ELSE Decimal(n \div 10) \o <<DigitText[(n % 10) + 1]>>

\* A label is <className><counter>.
label_name(class_name, counter) == class_name \o Decimal(counter)

\* A label whose counter does not move on.
fresh_label_stuck(st) ==
    IF st.ok
    THEN [st EXCEPT !.labels = Append(@, [name |-> label_name(st.class_name, st.label_counter),
                                          counter |-> st.label_counter])]
    ELSE st

\* A fresh label: named after the counter, which then moves on.
fresh_label(st) ==
    IF st.ok
    THEN [st EXCEPT !.labels = Append(@, [name |-> label_name(st.class_name, st.label_counter),
                                          counter |-> st.label_counter]),
                    !.label_counter = @ + 1]
    ELSE st

\* The value of the leaf added last.
last_leaf(st) ==
    LET places == {i \in 1..Len(st.out) : st.out[i].k = "leaf"}
    IN  IF places = {} THEN <<>> ELSE st.out[MaxOf(places)].value

\* The name read last is declared in the scope ("class_scope" or
\* "subroutine_scope").
declared(st, scope, kind, type) ==
    IF st.ok THEN [st EXCEPT ![scope] = declare(@, last_leaf(st), kind, type)]
    ELSE st

\* The number of expressions of the expression list parsed between two
\* parser states: the expression nodes right below the list node.
explicit_arguments(before, after) ==
    LET events == SubSeq(after.out, Len(before.out) + 1, Len(after.out))
        depth(i) == Cardinality({j \in 1..(i - 1) : events[j].k = "open"})
                        - Cardinality({j \in 1..(i - 1) : events[j].k = "close"})
    IN  Cardinality({i \in 1..Len(events) :
                        events[i] = Open("expression") /\ depth(i) = 1})

\* Call resolution: what is pushed as hidden first argument, the target and
\* the argument count of the call instruction.
call_instruction(st, qualified, first, name, explicit) ==
    LET q == lookup(st.subroutine_scope, st.class_scope, first)
    IN  IF ~qualified
        THEN [pushed |-> "receiver", symbol |-> NoSymbol,
              target |-> st.class_name \o <<".">> \o name, nargs |-> explicit + 1]
        ELSE IF q # NoSymbol
        THEN [pushed |-> "variable", symbol |-> q,
              target |-> q.type \o <<".">> \o name, nargs |-> explicit + 1]
        ELSE [pushed |-> "none", symbol |-> NoSymbol,
              target |-> first \o <<".">> \o name, nargs |-> explicit]

\* The call instruction is emitted.  Kept with it: the length of the queue
\* when the call began, what the parser read, and the scopes at this point.
emit_call(st, rest, qualified, first, name, explicit) ==
    IF st.ok
    THEN [st EXCEPT !.calls = Append(@,
             [rest |-> rest, qualified |-> qualified, first |-> first,
              name |-> name, explicit |-> explicit,
              class_name |-> st.class_name, class_scope |-> st.class_scope,
              subroutine_scope |-> st.subroutine_scope,
              instruction |-> call_instruction(st, qualified, first, name,
                                               explicit)])]
    ELSE st

parse_class_name(st) ==
    close(next_leaf(open(st, "class_name"), "identifier", {"Identifier"}, {}),
          "class_name")

parse_var_name(st) ==
    close(next_leaf(open(st, "var_name"), "identifier", {"Identifier"}, {}),
          "var_name")

parse_subroutine_name(st) ==
    close(next_leaf(open(st, "subroutine_name"), "identifier", {"Identifier"}, {}),
          "subroutine_name")

parse_op(st) == close(next_leaf(open(st, "op"), "symbol", AllKinds, {}), "op")

parse_unary_op(st) == next_leaf(st, "unary_op", AllKinds, {})

parse_integer_constant(st) ==
    close(next_leaf(open(st, "integer_constant"), "integer_constant", AllKinds, {}),
          "integer_constant")

parse_string_constant(st) ==
    close(next_leaf(open(st, "string_constant"), "string_constant", AllKinds, {}),
          "string_constant")

parse_keyword_constant(st) ==
    close(next_leaf(open(st, "keyword_constant"), "keyword_constant", AllKinds, {}),
          "keyword_constant")

parse_type(st) ==
    IF ~can_peek(st) THEN Aborted(st)
    ELSE IF peek(st).value \in {kw_int, kw_char, kw_boolean}
         THEN close(next_leaf(open(st, "type"), "keyword", AllKinds, {}), "type")
         ELSE close(parse_class_name(open(st, "type")), "type")

RECURSIVE class_var_names(_, _, _)
\* The loop of parse_class_var_dec: a name, then `,` (again) or `;` (done).
\* Each name is declared in the class-scope.
class_var_names(st, kind, type) ==
    LET s1 == declared(parse_var_name(st), "class_scope", kind, type)
        s2 == measured(st, next_leaf(s1, "symbol", {"Symbol"}, {<<",">>, <<";">>}))
    IN  IF ~can_peek(s1) THEN Aborted(s1)
        ELSE IF peek(s1).value = <<";">> THEN s2
        ELSE class_var_names(s2, kind, type)

parse_class_var_dec(st) ==
    LET s1 == next_leaf(open(st, "class_var_dec"), "keyword", AllKinds, {})
        \* the keyword fixes the kind
        kind == IF peek(st).value = kw_static THEN "Static" ELSE "Field"
        s2 == parse_type(s1)
    IN  close(class_var_names(s2, kind, last_leaf(s2)), "class_var_dec")

RECURSIVE parameters(_)
\* The loop of parse_parameter_list.
parameters(st) ==
    LET s1 == declared(parse_var_name(next_leaf(st, "type", AllKinds, {})),
                       "subroutine_scope", "Argument", peek(st).value)
        \* comma_or_else = self.next(): consumed, and added to no node
        s2 == measured(st, pop(s1))
    IN  IF ~can_peek(s1) THEN Aborted(s1)
        ELSE IF peek(s1).value # <<",">> THEN s2
        ELSE parameters(symbol(s2, ","))

parse_parameter_list(st) ==
    IF ~can_peek(st) THEN Aborted(st)
    ELSE IF /\ peek(st).value \notin {kw_int, kw_char, kw_boolean}
            /\ peek(st).token # "Identifier"
         THEN st
         ELSE close(parameters(open(st, "parameter_list")), "parameter_list")

RECURSIVE var_names(_, _)
\* The loop of parse_var_dec.  Each name is declared as Local.
var_names(st, type) ==
    IF ~can_peek(st) THEN Aborted(st)
    ELSE IF peek(st).value = <<";">> THEN symbol(st, ";")
    ELSE var_names(measured(st, declared(parse_var_name(symbol(st, ",")),
                                         "subroutine_scope", "Local", type)),
                   type)

parse_var_dec(st) ==
    LET s1 == next_leaf(open(st, "var_dec"), "keyword", AllKinds, {})
        s2 == parse_type(s1)
        s3 == declared(parse_var_name(s2), "subroutine_scope", "Local",
                       last_leaf(s2))
    IN  close(var_names(s3, last_leaf(s2)), "var_dec")

Operators == {<<"+">>, <<"-">>, <<"*">>, <<"/">>, <<"&">>, <<"|">>, <<"<">>,
              <<">">>, <<"=">>}

StatementWords == {kw_let, kw_if, kw_while, kw_do, kw_return}

RECURSIVE parse_expression(_), parse_term(_), term(_), parse_subroutine_call(_),
          parse_expression_list(_), operator_chain(_), parse_statements(_),
          statement_loop(_), parse_statement(_)

\* The loop of parse_expression: an operator and a term, while an operator follows.
operator_chain(st) ==
    IF ~can_peek(st) THEN Aborted(st)
    ELSE IF peek(st).value \notin Operators THEN st
    ELSE operator_chain(measured(st, parse_term(parse_op(st))))

parse_expression(st) ==
    measured(st, close(operator_chain(parse_term(open(st, "expression"))),
                       "expression"))

RECURSIVE expressions(_)
\* The loop of parse_expression_list: an expression, and again after a `,`.
expressions(st) ==
    LET s1 == measured(st, parse_expression(st))
    IN  IF ~can_peek(s1) THEN Aborted(s1)
        ELSE IF peek(s1).value # <<",">> THEN s1
        ELSE expressions(symbol(s1, ","))

parse_expression_list(st) ==
    close(expressions(open(st, "expression_list")), "expression_list")

parse_subroutine_call(st) ==
    LET \* func_or_class = self.next()
        s1 == pop(open(st, "subroutine_call"))
        \* "." : the held token goes back, then class name, dot, subroutine name
        qualified ==
            parse_subroutine_name(
                symbol(parse_class_name(
                           dispatched(insert_front(s1, peek(st)), st.tokens)),
                       "."))
        \* _ : the subroutine name is read from the queue as it is
        unqualified == parse_subroutine_name(dispatched(s1, st.tokens))
        s2 == IF peek(s1).value = <<".">> THEN qualified ELSE unqualified
        s3 == symbol(s2, "(")
        s4 == IF peek(s3).value # <<")">> THEN parse_expression_list(s3) ELSE s3
    IN  IF ~can_peek(s1) THEN Aborted(s1)
        ELSE IF ~can_peek(s3) THEN Aborted(s3)
        ELSE emit_call(close(symbol(s4, ")"), "subroutine_call"),
                       Len(st.tokens), peek(s1).value = <<".">>,
                       peek(st).value, last_leaf(s2),
                       explicit_arguments(s3, s4))

term(st) ==
    LET s0 == open(st, "term")
        t == peek(st)
        \* var_name_or_sub_name = self.next()
        s1 == pop(s0)
        indexed ==
            symbol(parse_expression(symbol(
                [s1 EXCEPT !.out = Append(@, Leaf("identifier", t.value)),
                           !.unexpected = @ \/ t.token # "Identifier"],
                "[")), "]")
        back == dispatched(insert_front(s1, t), st.tokens)
    IN  IF ~can_peek(st) THEN Aborted(st)
        ELSE IF t.token = "IntegerConstant"
             THEN close(parse_integer_constant(s0), "term")
        ELSE IF t.token = "StringConstant"
             THEN close(parse_string_constant(s0), "term")
        ELSE IF t.value \in {kw_true, kw_false, kw_null, kw_this}
             THEN close(parse_keyword_constant(s0), "term")
        ELSE IF t.value = <<"(">>
             THEN close(symbol(parse_expression(symbol(s0, "(")), ")"), "term")
        ELSE IF t.value \in {<<"-">>, <<"~">>}
             THEN close(parse_term(parse_unary_op(s0)), "term")
        ELSE IF ~can_peek(s1) THEN Aborted(s1)
        ELSE IF peek(s1).value = <<"[">> THEN close(indexed, "term")
        ELSE IF peek(s1).value \in {<<"(">>, <<".">>}
             THEN close(parse_subroutine_call(back), "term")
        ELSE close(parse_var_name(back), "term")

parse_term(st) == measured(st, term(st))

parse_let_statement(st) ==
    LET s1 == parse_var_name(
                  next_leaf(open(st, "let_statement"), "keyword", AllKinds, {}))
        s2 == IF peek(s1).value = <<"[">>
              THEN symbol(parse_expression(symbol(s1, "[")), "]")
              ELSE s1
    IN  IF ~can_peek(s1) THEN Aborted(s1)
        ELSE close(symbol(parse_expression(symbol(s2, "=")), ";"),
                   "let_statement")

parse_if_statement(st) ==
    LET s1 == next_leaf(open(st, "if_statement"), "keyword", AllKinds, {})
        \* the "false" label and the "end" label of the code generator
        s2 == fresh_label(fresh_label(s1))
        s3 == symbol(parse_expression(symbol(s2, "(")), ")")
        s4 == symbol(parse_statements(symbol(s3, "{")), "}")
        s5 == next_leaf(s4, "keyword", AllKinds, {})
        s6 == symbol(parse_statements(symbol(s5, "{")), "}")
    IN  IF ~can_peek(s4) THEN Aborted(s4)
        ELSE IF peek(s4).value = kw_else THEN close(s6, "if_statement")
        ELSE close(s4, "if_statement")

parse_while_statement(st) ==
    LET s1 == next_leaf(open(st, "while_statement"), "keyword", AllKinds, {})
        \* the "loop" label and the "end" label of the code generator
        s2 == fresh_label(fresh_label(s1))
        s3 == symbol(parse_expression(symbol(s2, "(")), ")")
    IN  close(symbol(parse_statements(symbol(s3, "{")), "}"), "while_statement")

parse_do_statement(st) ==
    LET s1 == next_leaf(open(st, "do_statement"), "keyword", AllKinds, {})
    IN  close(symbol(parse_subroutine_call(s1), ";"), "do_statement")

parse_return_statement(st) ==
    LET s1 == next_leaf(open(st, "return_statement"), "keyword", AllKinds, {})
        s2 == IF peek(s1).value # <<";">> THEN parse_expression(s1) ELSE s1
    IN  IF ~can_peek(s1) THEN Aborted(s1)
        ELSE close(symbol(s2, ";"), "return_statement")

parse_statement(st) ==
    IF ~can_peek(st) THEN Aborted(st)
    ELSE IF peek(st).value = kw_let THEN parse_let_statement(st)
    ELSE IF peek(st).value = kw_if THEN parse_if_statement(st)
    ELSE IF peek(st).value = kw_while THEN parse_while_statement(st)
    ELSE IF peek(st).value = kw_do THEN parse_do_statement(st)
    ELSE IF peek(st).value = kw_return THEN parse_return_statement(st)
    ELSE Aborted(st)

\* The loop of parse_statements: statements while a statement keyword follows.
statement_loop(st) ==
    IF ~can_peek(st) THEN Aborted(st)
    ELSE IF peek(st).value \notin StatementWords THEN st
    ELSE statement_loop(measured(st, parse_statement(st)))

parse_statements(st) ==
    IF ~can_peek(st) THEN Aborted(st)
    ELSE IF peek(st).value \in StatementWords
         THEN close(statement_loop(open(st, "statements")), "statements")
         ELSE st

RECURSIVE var_decs(_)
\* The loop of parse_subroutine_body: var declarations while `var` follows.
var_decs(st) ==
    IF ~can_peek(st) THEN Aborted(st)
    ELSE IF peek(st).value # kw_var THEN st
    ELSE var_decs(measured(st, parse_var_dec(st)))

parse_subroutine_body(st) ==
    LET s1 == symbol(open(st, "subroutine_body"), "{")
    IN  close(symbol(parse_statements(var_decs(s1)), "}"), "subroutine_body")

\* The subroutine-scope is reset; a method gets the implicit `this`,
\* Argument 0 of the type of the class.
new_subroutine_scope(st, word) ==
    IF ~st.ok THEN st
    ELSE [st EXCEPT !.subroutine_scope =
             IF word = kw_method
             THEN declare(resetSubroutineScope(@), kw_this, "Argument",
                          st.class_name)
             ELSE resetSubroutineScope(@)]

parse_subroutine_dec(st) ==
    LET s0 == next_leaf(open(st, "subroutine_dec"), "keyword", AllKinds, {})
        s1 == new_subroutine_scope(s0, peek(st).value)
        s2 == IF peek(s1).value = kw_void
              THEN next_leaf(s1, "keyword", AllKinds, {})
              ELSE parse_type(s1)
        s3 == symbol(parse_subroutine_name(s2), "(")
        s4 == symbol(parse_parameter_list(s3), ")")
    IN  IF ~can_peek(s1) THEN Aborted(s1)
        ELSE close(parse_subroutine_body(s4), "subroutine_dec")

RECURSIVE class_var_decs(_)
\* The first loop of parse_class.
class_var_decs(st) ==
    IF ~can_peek(st) THEN Aborted(st)
    ELSE IF peek(st).value \notin {kw_static, kw_field} THEN st
    ELSE class_var_decs(measured(st, parse_class_var_dec(st)))

RECURSIVE subroutine_decs(_)
\* The second loop of parse_class.
subroutine_decs(st) ==
    IF ~can_peek(st) THEN Aborted(st)
    ELSE IF peek(st).value \notin {kw_constructor, kw_function, kw_method} THEN st
    ELSE subroutine_decs(measured(st, parse_subroutine_dec(st)))

parse_class(st) ==
    LET s1 == next_leaf(open(st, "class"), "keyword", {"Keyword"}, {kw_class})
        s2 == next_leaf(s1, "identifier", {"Identifier"}, {})
        \* the class name is bound for the whole class
        s3 == IF can_peek(s1) THEN [s2 EXCEPT !.class_name = peek(s1).value] ELSE s2
        s4 == symbol(s3, "{")
    IN  close(symbol(subroutine_decs(class_var_decs(s4)), "}"), "class")

\* Parser::parse
parse(st) == parse_class(st)

(***************************************************************************)
(* The token queues the parser is run on: well-formed classes put          *)
(* together from the grammar, the same with one token replaced or with     *)
(* the end cut off, and every short sequence over a few tokens.            *)
(***************************************************************************)
K(word) == Token("Keyword", word)

S(c) == Token("Symbol", <<c>>)

I(c) == Token("Identifier", <<c>>)

N(c) == Token("IntegerConstant", <<c>>)

RECURSIVE Flatten(_)
Flatten(ss) == IF ss = <<>> THEN <<>> ELSE Head(ss) \o Flatten(Tail(ss))

While(cond, body) ==
    <<K(kw_while), S("(")>> \o cond \o <<S(")"), S("{")>> \o body \o <<S("}")>>

If(cond, body) ==
    <<K(kw_if), S("(")>> \o cond \o <<S(")"), S("{")>> \o body \o <<S("}")>>

IfElse(cond, body, other) ==
    If(cond, body) \o <<K(kw_else), S("{")>> \o other \o <<S("}")>>

LetX == <<K(kw_let), I("x"), S("="), I("x"), S("+"), N("1"), S(";")>>

LetIndexed ==
    <<K(kw_let), I("y"), S("["), N("1"), S("]"), S("="), S("-"), I("y"),
      S("["), I("x"), S("]"), S(";")>>

LetCall ==
    <<K(kw_let), I("x"), S("="), I("A"), S("."), I("g"), S("("), S(")"), S(";")>>

DoQualified ==
    <<K(kw_do), I("A"), S("."), I("g"), S("("), I("x"), S(","), N("1"), S(")"),
      S(";")>>

DoUnqualified == <<K(kw_do), I("g"), S("("), S(")"), S(";")>>

Return == <<K(kw_return), S(";")>>

ReturnX == <<K(kw_return), I("x"), S(";")>>

VarDec == <<K(kw_var), K(kw_int), I("y"), S(","), I("z"), S(";")>>

\* var B x;
VarObject == <<K(kw_var), I("B"), I("x"), S(";")>>

\* do x.g(1);
DoOnVariable ==
    <<K(kw_do), I("x"), S("."), I("g"), S("("), N("1"), S(")"), S(";")>>

\* Subroutine bodies without a call that has no qualifier.
PlainBodies ==
    { Return,
      While(<<I("x")>>, LetX) \o Return,
      IfElse(<<I("x")>>, DoQualified, <<>>) \o ReturnX,
      While(<<I("x")>>, If(<<K(kw_true)>>, While(<<I("x")>>, <<>>))) \o Return,
      VarDec \o LetIndexed \o LetCall \o Return,
      DoOnVariable \o Return,
      VarObject \o DoOnVariable \o Return }

CallBodies == { DoUnqualified \o Return }

NoParameters == <<>>

OneParameter == <<K(kw_int), I("x")>>

TwoParameters == <<K(kw_int), I("x"), S(","), I("A"), I("y")>>

Subroutine(parameters_, body) ==
    <<K(kw_function), K(kw_void), I("f"), S("(")>> \o parameters_
        \o <<S(")"), S("{")>> \o body \o <<S("}")>>

\* Subroutine declarations the parser reads as the grammar says.
PlainSubroutines == {Subroutine(NoParameters, b) : b \in PlainBodies}

Subroutines ==
    PlainSubroutines
        \cup {Subroutine(NoParameters, b) : b \in CallBodies}
        \cup {Subroutine(p, Return) : p \in {OneParameter, TwoParameters}}

ClassVarDecs ==
    { <<>>,
      <<K(kw_field), K(kw_int), I("x"), S(";")>>,
      <<K(kw_static), I("A"), I("x"), S(","), I("y"), S(";"),
        K(kw_field), K(kw_boolean), I("z"), S(";")>> }

Class(class_vars, subroutines) ==
    <<K(kw_class), I("A"), S("{")>> \o class_vars \o Flatten(subroutines)
        \o <<S("}")>>

SubroutineLists == UNION {[1..n -> Subroutines] : n \in 0..MaxSubroutines}

\* A well-formed class, with the subroutine declarations it is made of.
WellFormedInputs ==
    { [toks |-> Class(v, ss), well_formed |-> TRUE, subroutines |-> ss] :
        v \in ClassVarDecs, ss \in SubroutineLists }

Malformed(toks) == [toks |-> toks, well_formed |-> FALSE, subroutines |-> <<>>]

\* The tokens a replaced token is replaced by, and short sequences are made of.
FewTokens == {K(kw_class), I("A"), S("{"), S("}"), S(";"), S("(")}

OneSubroutineClasses == {Class(<<>>, <<sub>>) : sub \in Subroutines}

ReplacedInputs ==
    { Malformed([c EXCEPT ![i] = t]) :
        c \in OneSubroutineClasses, i \in 1..MaxReplaced, t \in FewTokens }

CutInputs ==
    { Malformed(Take(c, n)) : c \in OneSubroutineClasses, n \in 0..MaxReplaced }

ShortInputs ==
    { Malformed(toks) : toks \in UNION {[1..n -> FewTokens] : n \in 0..MaxShortLen} }

ParserInputs ==
    WellFormedInputs \cup ReplacedInputs \cup CutInputs \cup ShortInputs

(***************************************************************************)
(* vm_from_tokens: Parser::new on the tokens, then Parser::parse.          *)
(***************************************************************************)
ParInit ==
    /\ input \in ParserInputs
    /\ parser = Parser(input.toks)
    /\ pstate = "ready"

\* parse() returns the tree.
ParseReturns ==
    /\ pstate = "ready"
    /\ parse(parser).ok
    /\ parser' = parse(parser)
    /\ pstate' = "returned"
    /\ UNCHANGED input

\* parse() panics: an unwrap() on an empty queue, or panic!.
ParseAborts ==
    /\ pstate = "ready"
    /\ ~parse(parser).ok
    /\ parser' = parse(parser)
    /\ pstate' = "aborted"
    /\ UNCHANGED input

(***************************************************************************)
(* tokens_for_file: the loop that calls next() until EndOfFile.            *)
(***************************************************************************)
\* The characters the short texts are made of.
TextAlphabet == {"d", "o", "2", "_", ";", "/", QUOTE, " ", NL, "#", "U00E9"}

ShortTexts == UNION {[1..n -> TextAlphabet] : n \in 0..MaxTextLen}

\* Before the first call of next(): no token yet.
NoToken == Token("None", <<>>)

TokIdle ==
    source = <<>> /\ code = <<>> /\ result = <<>> /\ last = NoToken
        /\ tstate = "idle"

ParIdle == input = Malformed(<<>>) /\ parser = Parser(<<>>) /\ pstate = "idle"

\* class A{}
ClassText == kw_class \o <<" ", "A", "{", "}">>

\* class A{              the end of the class is missing
CutText == kw_class \o <<" ", "A", "{">>

\* class A{}//<U20AC>    a comment ends the text
CommentText == ClassText \o <<"/", "/", "U20AC">>

\* The texts of the files the driver is run on.
FileTexts == {ClassText, CutText, CommentText}

\* class A{field int field2;}
FieldText ==
    kw_class \o <<" ", "A", "{">> \o kw_field \o <<" ">> \o kw_int \o <<" ">>
        \o kw_field \o <<"2", ";", "}">>

\* class A{ // <U20AC> <newline> }
EuroText == kw_class \o <<" ", "A", "{", " ", "/", "/", "U20AC", NL, "}">>

\* class A{function void f(){do g("a", "b");return;}}
StringsText ==
    kw_class \o <<" ", "A", "{">> \o kw_function \o <<" ">> \o kw_void
        \o <<" ", "f", "(", ")", "{">> \o kw_do
        \o <<" ", "g", "(", QUOTE, "a", QUOTE, ",", " ", QUOTE, "b", QUOTE, ")", ";">>
        \o kw_return \o <<";", "}", "}">>

\* Texts of well-formed classes.
ClassTexts == {ClassText, FieldText, EuroText, StringsText}

TokInit ==
    /\ source \in ShortTexts \cup ClassTexts \cup FileTexts
    /\ code = source
    /\ result = <<>>
    /\ last = NoToken
    /\ tstate = "loop"

\* One iteration: next() returned a token, which is pushed.
PushToken ==
    /\ tstate = "loop"
    /\ LET r == next(code) IN
        /\ ~r.panic
        /\ r.token.token # "EndOfFile"
        /\ code' = r.code
        /\ last' = r.token
        /\ result' = Append(result, r.token)
    /\ UNCHANGED <<source, tstate>>

\* One iteration: next() returned EndOfFile, the loop returns the tokens.
ReturnTokens ==
    /\ tstate = "loop"
    /\ LET r == next(code) IN
        /\ ~r.panic
        /\ r.token.token = "EndOfFile"
        /\ code' = r.code
        /\ last' = r.token
    /\ tstate' = "returned"
    /\ UNCHANGED <<source, result>>

\* One iteration: next() panicked inside remove_n_first_chars.
TokenizerPanic ==
    /\ tstate = "loop"
    /\ LET r == next(code) IN
        /\ r.panic
        /\ code' = r.code
    /\ tstate' = "panicked"
    /\ UNCHANGED <<source, result, last>>

(***************************************************************************)
(* The driver, main.  read_dir yields the entries of the directory; the    *)
(* entries whose name ends with .jack go through the for_each closure,     *)
(* one after the other.  A read, create or write may fail.                 *)
(***************************************************************************)
RECURSIVE token_loop(_, _)
\* The loop of tokens_for_file, run to its end.
token_loop(text, tokens) ==
    LET r == next(text)
    IN  IF r.panic THEN [panic |-> TRUE, tokens |-> tokens]
        ELSE IF r.token.token = "EndOfFile" THEN [panic |-> FALSE, tokens |-> tokens]
        ELSE token_loop(r.code, Append(tokens, r.token))

\* tokens_for_file, once the text is read.
tokens_for_file(content) == token_loop(content, <<>>)

\* vm_from_tokens
vm_from_tokens(tokens) == parse(Parser(tokens))

JackSuffix == <<".", "j", "a", "c", "k">>

VmSuffix == <<".", "v", "m">>

\* str::ends_with
ends_with(text, suffix) ==
    Len(suffix) <= Len(text) /\ Drop(text, Len(text) - Len(suffix)) = suffix

\* format!("{}/{}.vm", args[1], file), within the directory.
out_path(file_name) == file_name \o VmSuffix

\* A closure that creates the output file first.
Closure_create_first ==
    <<"File::create", "tokens_for_file", "vm_from_tokens", "write">>

\* The statements of the closure, in the order they are written.
Closure == <<"tokens_for_file", "vm_from_tokens", "File::create", "write">>

\* The i-th entry: its name is its number and a suffix.
Entry(i, suffix, text) == [name |-> <<DigitText[i]>> \o suffix, text |-> text]

Listings ==
    UNION { { [i \in 1..n |-> Entry(i, f[i][1], f[i][2])] :
                f \in [1..n -> {JackSuffix, VmSuffix} \X FileTexts] } :
            n \in 0..MaxFiles }

DrvInit ==
    /\ dir \in Listings
    /\ cur = 1
    /\ step = 1
    /\ dstate = "start"
    /\ held = [tokens |-> <<>>, vm |-> <<>>]
    /\ disk = {}
    /\ compiled = {}
    /\ failed = {}

DrvIdle ==
    /\ dir = <<>>
    /\ cur = 1
    /\ step = 1
    /\ dstate = "idle"
    /\ held = [tokens |-> <<>>, vm |-> <<>>]
    /\ disk = {}
    /\ compiled = {}
    /\ failed = {}

\* read_dir(dir_path) succeeds.
ReadDir ==
    /\ dstate = "start"
    /\ dstate' = "iterate"
    /\ UNCHANGED <<dir, cur, step, held, disk, compiled, failed>>

\* read_dir(dir_path) fails: panic!("Invalid path").
ReadDirFails ==
    /\ dstate = "start"
    /\ dstate' = "aborted"
    /\ UNCHANGED <<dir, cur, step, held, disk, compiled, failed>>

\* filter_map: an entry whose name does not end with .jack is passed over.
SkipEntry ==
    /\ dstate = "iterate"
    /\ cur <= Len(dir)
    /\ ~ends_with(dir[cur].name, JackSuffix)
    /\ cur' = cur + 1
    /\ UNCHANGED <<dir, step, dstate, held, disk, compiled, failed>>

\* filter_map: an entry whose name ends with .jack enters the closure.
EnterClosure ==
    /\ dstate = "iterate"
    /\ cur <= Len(dir)
    /\ ends_with(dir[cur].name, JackSuffix)
    /\ dstate' = "closure"
    /\ step' = 1
    /\ UNCHANGED <<dir, cur, held, disk, compiled, failed>>

\* The iterator is exhausted: main returns.
Finish ==
    /\ dstate = "iterate"
    /\ cur > Len(dir)
    /\ dstate' = "done"
    /\ UNCHANGED <<dir, cur, step, held, disk, compiled, failed>>

\* The closure's next statement is done: on to the one after it, or, after
\* the last, on to the next entry.
Advance ==
    IF step < Len(Closure)
    THEN step' = step + 1 /\ UNCHANGED <<cur, dstate>>
    ELSE step' = 1 /\ cur' = cur + 1 /\ dstate' = "iterate"

AtStatement(name) == dstate = "closure" /\ Closure[step] = name

\* tokens_for_file returns the tokens of the text.
TokensForFile ==
    /\ AtStatement("tokens_for_file")
    /\ ~tokens_for_file(dir[cur].text).panic
    /\ held' = [held EXCEPT !.tokens = tokens_for_file(dir[cur].text).tokens]
    /\ Advance
    /\ UNCHANGED <<dir, disk, compiled, failed>>

\* tokens_for_file panics: read_to_string failed.
ReadFails ==
    /\ AtStatement("tokens_for_file")
    /\ dstate' = "aborted"
    /\ UNCHANGED <<dir, cur, step, held, disk, compiled, failed>>

\* tokens_for_file panics: the tokenizer did.
TokenizingAborts ==
    /\ AtStatement("tokens_for_file")
    /\ tokens_for_file(dir[cur].text).panic
    /\ dstate' = "aborted"
    /\ failed' = failed \cup {dir[cur].name}
    /\ UNCHANGED <<dir, cur, step, held, disk, compiled>>

\* vm_from_tokens returns the output of the parser.
VmFromTokens ==
    /\ AtStatement("vm_from_tokens")
    /\ vm_from_tokens(held.tokens).ok
    /\ held' = [held EXCEPT !.vm = vm_from_tokens(held.tokens).out]
    /\ compiled' = compiled \cup {dir[cur].name}
    /\ Advance
    /\ UNCHANGED <<dir, disk, failed>>

\* vm_from_tokens panics: the parser did.
ParsingAborts ==
    /\ AtStatement("vm_from_tokens")
    /\ ~vm_from_tokens(held.tokens).ok
    /\ dstate' = "aborted"
    /\ failed' = failed \cup {dir[cur].name}
    /\ UNCHANGED <<dir, cur, step, held, disk, compiled>>

\* File::create(out_path) creates the file, empty.
CreateFile ==
    /\ AtStatement("File::create")
    /\ disk' = {f \in disk : f.name # out_path(dir[cur].name)}
                  \cup {[name |-> out_path(dir[cur].name), of |-> dir[cur].name,
                         content |-> <<>>]}
    /\ Advance
    /\ UNCHANGED <<dir, held, compiled, failed>>

\* File::create(out_path) fails: panic.
CreateFails ==
    /\ AtStatement("File::create")
    /\ dstate' = "aborted"
    /\ UNCHANGED <<dir, cur, step, held, disk, compiled, failed>>

\* writer.write(vm.as_bytes()), and the writer's flush as it is dropped.
WriteFile ==
    /\ AtStatement("write")
    /\ disk' = {f \in disk : f.name # out_path(dir[cur].name)}
                  \cup {[name |-> out_path(dir[cur].name), of |-> dir[cur].name,
                         content |-> held.vm]}
    /\ Advance
    /\ UNCHANGED <<dir, held, compiled, failed>>

\* writer.write fails: panic.  The created file stays as it is.
WriteFails ==
    /\ AtStatement("write")
    /\ dstate' = "aborted"
    /\ UNCHANGED <<dir, cur, step, held, disk, compiled, failed>>

(***************************************************************************)
(* Specifications: the tokenizer loop on a text (Spec), the parser on a    *)
(* token queue (SpecParser), the driver on a directory (SpecDriver) and    *)
(* the symbol tables under a sequence of operations (SpecSymbols).         *)
(***************************************************************************)
Init == TokInit /\ ParIdle /\ DrvIdle /\ SymIdle

Next ==
    \/ PushToken /\ UNCHANGED <<parVars, drvVars, symVars>>
    \/ ReturnTokens /\ UNCHANGED <<parVars, drvVars, symVars>>
    \/ TokenizerPanic /\ UNCHANGED <<parVars, drvVars, symVars>>

Spec == Init /\ [][Next]_vars

InitParser == ParInit /\ TokIdle /\ DrvIdle /\ SymIdle

NextParser ==
    \/ ParseReturns /\ UNCHANGED <<tokVars, drvVars, symVars>>
    \/ ParseAborts /\ UNCHANGED <<tokVars, drvVars, symVars>>

SpecParser == InitParser /\ [][NextParser]_vars

InitDriver == DrvInit /\ TokIdle /\ ParIdle /\ SymIdle

NextDriver ==
    \/ ReadDir /\ UNCHANGED <<tokVars, parVars, symVars>>
    \/ ReadDirFails /\ UNCHANGED <<tokVars, parVars, symVars>>
    \/ SkipEntry /\ UNCHANGED <<tokVars, parVars, symVars>>
    \/ EnterClosure /\ UNCHANGED <<tokVars, parVars, symVars>>
    \/ Finish /\ UNCHANGED <<tokVars, parVars, symVars>>
    \/ TokensForFile /\ UNCHANGED <<tokVars, parVars, symVars>>
    \/ ReadFails /\ UNCHANGED <<tokVars, parVars, symVars>>
    \/ TokenizingAborts /\ UNCHANGED <<tokVars, parVars, symVars>>
    \/ VmFromTokens /\ UNCHANGED <<tokVars, parVars, symVars>>
    \/ ParsingAborts /\ UNCHANGED <<tokVars, parVars, symVars>>
    \/ CreateFile /\ UNCHANGED <<tokVars, parVars, symVars>>
    \/ CreateFails /\ UNCHANGED <<tokVars, parVars, symVars>>
    \/ WriteFile /\ UNCHANGED <<tokVars, parVars, symVars>>
    \/ WriteFails /\ UNCHANGED <<tokVars, parVars, symVars>>

SpecDriver == InitDriver /\ [][NextDriver]_vars

InitSymbols == SymInit /\ TokIdle /\ ParIdle /\ DrvIdle

NextSymbols ==
    \/ DeclareInClass /\ UNCHANGED <<tokVars, parVars, drvVars>>
    \/ DeclareInSubroutine /\ UNCHANGED <<tokVars, parVars, drvVars>>
    \/ ResetSubroutineScope /\ UNCHANGED <<tokVars, parVars, drvVars>>

SpecSymbols == InitSymbols /\ [][NextSymbols]_vars

(***************************************************************************)
(* What the claims are stated with.                                        *)
(***************************************************************************)
Word == Alpha \cup Digit \cup {"_"}

RECURSIVE SkipBlanks(_)
\* The text from its next lexeme on: leading white space and line comments
\* left out, character by character.
SkipBlanks(text) ==
    LET c == trim_start(text)
    IN  IF COMMENTS(c) # <<>> THEN SkipBlanks(Drop(c, Len(COMMENTS(c)))) ELSE c

\* The maximal run of letters, digits and underscores the next lexeme starts with.
NextRun(text) == Take(SkipBlanks(text), RunLen(SkipBlanks(text), Word))

\* The run begins with a reserved word and is longer than it.
LongerThanKeyword(run) ==
    \E i \in 1..Len(KeywordList) :
        IsPrefix(KeywordList[i], run) /\ Len(run) > Len(KeywordList[i])

\* The text left when exactly the characters of the comments and of the
\* token that next() matches are taken from the front.
ExactRemainder(text) ==
    Drop(SkipBlanks(text), Len(first_match(SkipBlanks(text)).value))

\* The stripped text is not empty and none of the six patterns matches it.
Unmatched(text) ==
    LET c == trim_start(text)
    IN  c # <<>> /\ COMMENTS(c) = <<>> /\ first_match(c) = EndOfFile

RECURSIVE TextOf(_)
\* The texts of the tokens, one after the other.
TextOf(tokens) ==
    IF tokens = <<>> THEN <<>> ELSE Head(tokens).value \o TextOf(Tail(tokens))

\* A string constant of the language at the front of the text: from a quote
\* to the next quote of the line; <<>> when there is none.
StringLexeme(s) ==
    IF s = <<>> \/ Head(s) # QUOTE THEN <<>>
    ELSE LET n == RunLen(Tail(s), Chars \ {NL, QUOTE})
         IN  IF n + 2 <= Len(s) /\ s[n + 2] = QUOTE THEN Take(s, n + 2) ELSE <<>>

RECURSIVE Stripped(_)
\* The text with the white space between its lexemes and its line comments
\* deleted.
Stripped(s) ==
    IF s = <<>> THEN <<>>
    ELSE IF Head(s) \in WhiteSpace THEN Stripped(Tail(s))
    ELSE IF COMMENTS(s) # <<>> THEN Stripped(Drop(s, Len(COMMENTS(s))))
    ELSE IF StringLexeme(s) # <<>>
         THEN StringLexeme(s) \o Stripped(Drop(s, Len(StringLexeme(s))))
    ELSE <<Head(s)>> \o Stripped(Tail(s))

Values(tokens) == [i \in 1..Len(tokens) |-> tokens[i].value]

IsLeaf(event) == event.k = "leaf"

\* The values of the leaves among the events, in order.
LeafValues(events) == Values(SelectSeq(events, IsLeaf))

\* The k-th smallest element of a set of numbers.
Kth(set, k) == CHOOSE x \in set : Cardinality({y \in set : y < x}) = k - 1

Places(events, event) == {i \in 1..Len(events) : events[i] = event}

(***************************************************************************)
(* C1.  Maximal munch: when the next lexeme is a maximal run of letters,   *)
(* digits and underscores that begins with a reserved word and is longer   *)
(* than it, next() returns one Identifier token whose text is the whole    *)
(* run (and the loop pushes it).  The code matches KEYWORDS first,         *)
(* without a word boundary, and returns the reserved word.                 *)
(***************************************************************************)
C1_MaximalMunch ==
    [][(tstate = "loop" /\ LongerThanKeyword(NextRun(code)))
          => (/\ tstate' = "loop"
              /\ last' = Token("Identifier", NextRun(code))
              /\ result' = Append(result, last'))]_vars

(***************************************************************************)
(* C2.  Failure semantics: parse() returns no tree for a token queue in    *)
(* which, at a place where the grammar requires the keyword class, a       *)
(* certain symbol or an identifier, another token stood; it aborts.        *)
(* The code takes whatever token is at the front as the leaf.              *)
(***************************************************************************)
C2_AbortsOnUnexpectedToken == pstate = "returned" => ~parser.unexpected

(***************************************************************************)
(* C3.  Two-token disambiguation restores the queue: the routine that is   *)
(* dispatched after a lookahead consume and reads the first token itself   *)
(* sees the queue as it was before the consume; and in a well-formed       *)
(* class the subroutine_name leaf of a call without qualifier is the       *)
(* name, followed by the symbol leaf `(`.  parse_subroutine_call does not  *)
(* put the name back in its branch without qualifier.                      *)
(***************************************************************************)
C3_LookaheadRestoresQueue ==
    pstate \in {"returned", "aborted"} =>
        /\ \A i \in 1..Len(parser.lookahead) :
               parser.lookahead[i].seen = parser.lookahead[i].before
        /\ input.well_formed =>
               \A i \in 1..Len(parser.out) :
                   (/\ parser.out[i] = Open("subroutine_call")
                    /\ i + 4 <= Len(parser.out)
                    /\ parser.out[i + 1] = Open("subroutine_name"))
                   => /\ parser.out[i + 2].k = "leaf"
                      /\ parser.out[i + 2].value \notin {<<c>> : c \in SymbolChars}
                      /\ parser.out[i + 4] = Leaf("symbol", <<"(">>)

(***************************************************************************)
(* C4.  A well-formed class is consumed exactly: parse() returns, the      *)
(* queue is empty, each subroutine_dec node holds the tokens of its own    *)
(* declaration, and the last leaf of the class node is the closing `}`.    *)
(* parse_parameter_list consumes the token after a parameter twice.        *)
(***************************************************************************)
C4_ClassConsumedExactly ==
    (pstate \in {"returned", "aborted"} /\ input.well_formed) =>
        /\ pstate = "returned"
        /\ parser.tokens = <<>>
        /\ LeafValues(parser.out) = Values(input.toks)
        /\ LET opens == Places(parser.out, Open("subroutine_dec"))
               closes == Places(parser.out, Close("subroutine_dec"))
           IN  /\ Cardinality(opens) = Len(input.subroutines)
               /\ Cardinality(closes) = Len(input.subroutines)
               /\ \A k \in 1..Len(input.subroutines) :
                      LeafValues(SubSeq(parser.out, Kth(opens, k), Kth(closes, k)))
                          = Values(input.subroutines[k])
        /\ Len(parser.out) >= 2
        /\ parser.out[Len(parser.out)] = Close("class")
        /\ parser.out[Len(parser.out) - 1] = Leaf("symbol", <<"}">>)

(***************************************************************************)
(* C5.  next() consumes exactly what it matched: after a call the          *)
(* remaining text is the stripped text without the characters of the       *)
(* comments and of the token matched, and no removal goes past the end of  *)
(* the text (the call does not panic).  The code removes as many           *)
(* characters as the match has bytes.                                      *)
(***************************************************************************)
C5_ConsumesExactlyTheMatch ==
    [][tstate = "loop"
          => (tstate' # "panicked" /\ code' = ExactRemainder(code))]_vars

(***************************************************************************)
(* C6.  Unmatched text is signalled as end of input: when the stripped     *)
(* remaining text is not empty and matches none of the six patterns,       *)
(* next() returns EndOfFile with empty text and does not panic, the        *)
(* remaining text is that stripped text, a later next() returns EndOfFile  *)
(* again and leaves it alone, and tokens_for_file returns the tokens       *)
(* pushed before.                                                          *)
(***************************************************************************)
C6_UnmatchedIsEndOfFile ==
    [][(tstate = "loop" /\ Unmatched(code))
          => (/\ tstate' = "returned"
              /\ last' = Token("EndOfFile", <<>>)
              /\ code' = trim_start(code)
              /\ code' # <<>>
              /\ result' = result
              /\ next(code') = [token |-> Token("EndOfFile", <<>>),
                                code |-> code', panic |-> FALSE])]_vars

\* tokens_for_file has returned tokens, and text that matches nothing is left.
C6_Witness == tstate = "returned" /\ result # <<>> /\ Unmatched(code)

(***************************************************************************)
(* C7.  Token round trip: for the text of a well-formed class, the texts   *)
(* of the tokens returned up to EndOfFile, one after the other, are the    *)
(* source text without the white space between its tokens and without its  *)
(* line comments; no token is empty, starts with //, or is white space.    *)
(* Fails with C5: after a comment with a multi-byte character, text that   *)
(* follows the comment is removed with it.                                 *)
(***************************************************************************)
C7_TokenRoundTrip ==
    (source \in ClassTexts /\ tstate \in {"returned", "panicked"}) =>
        /\ tstate = "returned"
        /\ TextOf(result) = Stripped(source)
        /\ \A i \in 1..Len(result) :
               /\ result[i].value # <<>>
               /\ ~IsPrefix(<<"/", "/">>, result[i].value)
               /\ \E j \in 1..Len(result[i].value) :
                      result[i].value[j] \notin WhiteSpace

(***************************************************************************)
(* C8.  Driver all-or-nothing: a run that ends writes one output file per  *)
(* .jack entry, and a run that aborts retains no output file.  The code    *)
(* leaves the files of the entries before the failing one where they are.  *)
(***************************************************************************)
C8_AllOrNothing ==
    /\ dstate = "done" =>
           {f.name : f \in disk}
               = {out_path(dir[i].name) :
                      i \in {j \in 1..Len(dir) : ends_with(dir[j].name, JackSuffix)}}
    /\ dstate = "aborted" => disk = {}

(***************************************************************************)
(* C9.  No output for a failed class: an output file exists only for an    *)
(* entry whose tokenizing and parsing have returned, and never for an      *)
(* entry whose tokenizing or parsing aborted.                              *)
(***************************************************************************)
C9_NoOutputForFailedClass ==
    \A f \in disk : f.of \in compiled /\ f.of \notin failed

\* A class failed after another class's output was written.
C9_Witness ==
    /\ dstate = "aborted"
    /\ failed # {}
    /\ \E f \in disk : f.content # <<>>
    /\ \A f \in disk : f.of \notin failed

(***************************************************************************)
(* C10.  Label uniqueness: the counters of the labels of one class         *)
(* compilation increase strictly in the order the labels are made, across  *)
(* subroutines and nested statements, and the label names                  *)
(* <className><counter> are pairwise distinct.                             *)
(***************************************************************************)
C10_LabelsDistinct ==
    \A i, j \in 1..Len(parser.labels) :
        i < j => /\ parser.labels[i].counter < parser.labels[j].counter
                 /\ parser.labels[i].name # parser.labels[j].name

\* A class of several subroutines with loops, nested ones too, is compiled.
C10_Witness ==
    /\ pstate = "returned"
    /\ input.well_formed
    /\ Len(input.subroutines) >= 2
    /\ Len(parser.labels) >= 12
    /\ parser.tokens = <<>>


\* The slot indices of each kind in the scope are 0..n-1, one per symbol.
Dense(scope) ==
    \A kind \in ClassKinds \cup SubroutineKinds :
        /\ indices_of(scope, kind) = 0..(countOf(scope, kind) - 1)
        /\ Cardinality(indices_of(scope, kind)) = countOf(scope, kind)

\* The scope after a declare: the name holds 1 + max of the indices the
\* kind held before (0 if none), and the other entries are as before.
Declared(before, after, name, kind) ==
    /\ DOMAIN after = DOMAIN before \cup {name}
    /\ after[name].kind = kind
    /\ after[name].index =
           IF indices_of(before, kind) = {} THEN 0
           ELSE 1 + MaxOf(indices_of(before, kind))
    /\ \A n \in DOMAIN before \ {name} : after[n] = before[n]

(***************************************************************************)
(* C11.  Dense symbol indices: after any sequence of declare operations,   *)
(* redeclarations included, the slot indices of each kind in each scope    *)
(* are exactly 0..n-1, without gap or duplicate; each declare assigns      *)
(* 1 + max of the kind's indices, or 0; resetSubroutineScope empties the   *)
(* subroutine-scope, so that its indices restart at 0, and leaves the      *)
(* class-scope as it is.  A redeclared name gives up its old index and     *)
(* takes a new one past the maximum, which leaves a gap.                   *)
(***************************************************************************)
C11_DenseIndices ==
    /\ Dense(class_scope)
    /\ Dense(subroutine_scope)
    /\ (operation.op = "declare" /\ operation.scope = "class") =>
           /\ Declared(operation.class_before, class_scope,
                       operation.name, operation.kind)
           /\ subroutine_scope = operation.subroutine_before
    /\ (operation.op = "declare" /\ operation.scope = "subroutine") =>
           /\ Declared(operation.subroutine_before, subroutine_scope,
                       operation.name, operation.kind)
           /\ class_scope = operation.class_before
    /\ operation.op = "reset" =>
           /\ subroutine_scope = EmptyScope
           /\ class_scope = operation.class_before

\* The places of the names called in a token sequence: an identifier before
\* `(` that is not the name of a subroutine declaration (which follows its
\* return type).
CallNames(toks) ==
    {i \in 2..(Len(toks) - 1) :
        /\ toks[i].token = "Identifier"
        /\ toks[i + 1].value = <<"(">>
        /\ toks[i - 1].token # "Identifier"
        /\ toks[i - 1].value \notin {kw_void, kw_int, kw_char, kw_boolean}}

RECURSIVE Commas(_, _, _)
\* The commas of the argument list that begins at place j, outside nested
\* parentheses and brackets.
Commas(toks, j, depth) ==
    IF j > Len(toks) THEN 0
    ELSE IF toks[j].value \in {<<"(">>, <<"[">>} THEN Commas(toks, j + 1, depth + 1)
    ELSE IF toks[j].value \in {<<")">>, <<"]">>}
         THEN IF depth = 0 THEN 0 ELSE Commas(toks, j + 1, depth - 1)
    ELSE IF toks[j].value = <<",">> /\ depth = 0 THEN 1 + Commas(toks, j + 1, depth)
    ELSE Commas(toks, j + 1, depth)

\* The number of explicit arguments of the call whose name is at place i.
SourceArguments(toks, i) ==
    IF toks[i + 2].value = <<")">> THEN 0 ELSE 1 + Commas(toks, i + 2, 0)

SourceQualified(toks, i) == i > 2 /\ toks[i - 1].value = <<".">>

\* The instruction the call whose name is at place i is to be compiled to,
\* in a class of that name and with these scopes.
SourceInstruction(toks, i, class_name, subroutine, class) ==
    LET f == toks[i].value
        q == toks[i - 2].value
        n == SourceArguments(toks, i)
    IN  IF ~SourceQualified(toks, i)
        THEN [pushed |-> "receiver", symbol |-> NoSymbol,
              target |-> class_name \o <<".">> \o f, nargs |-> n + 1]
        ELSE IF q \in DOMAIN subroutine
        THEN [pushed |-> "variable", symbol |-> subroutine[q],
              target |-> subroutine[q].type \o <<".">> \o f, nargs |-> n + 1]
        ELSE IF q \in DOMAIN class
        THEN [pushed |-> "variable", symbol |-> class[q],
              target |-> class[q].type \o <<".">> \o f, nargs |-> n + 1]
        ELSE [pushed |-> "none", symbol |-> NoSymbol,
              target |-> q \o <<".">> \o f, nargs |-> n]

\* The place in the input of the first token of an emitted call.
CallPlace(call) == Len(input.toks) - call.rest + 1

(***************************************************************************)
(* C12.  Call resolution: every call of a well-formed class is compiled,   *)
(* and to this: a call f(...) without qualifier pushes the receiver and    *)
(* targets CurrentClass.f; a call q.f(...) whose q resolves, in the        *)
(* subroutine-scope first and then in the class-scope, pushes q's value    *)
(* and targets <type of q>.f; any other q.f(...) targets q.f and pushes    *)
(* nothing; the argument count is the number of explicit arguments, plus   *)
(* one exactly when something was pushed.  Fails with C3: for a call       *)
(* without qualifier parse_subroutine_call reads `(` as the name and what  *)
(* follows the `)` as the argument list.                                   *)
(***************************************************************************)
C12_CallResolution ==
    (pstate \in {"returned", "aborted"} /\ input.well_formed) =>
        /\ Len(parser.calls) = Cardinality(CallNames(input.toks))
        /\ \A i \in CallNames(input.toks) :
               \E k \in 1..Len(parser.calls) :
                   LET call == parser.calls[k] IN
                   /\ CallPlace(call)
                          = IF SourceQualified(input.toks, i) THEN i - 2 ELSE i
                   /\ call.instruction
                          = SourceInstruction(input.toks, i, input.toks[2].value,
                                              call.subroutine_scope,
                                              call.class_scope)
                   /\ (call.instruction.nargs = SourceArguments(input.toks, i) + 1)
                          <=> (call.instruction.pushed # "none")

(***************************************************************************)
(* C13.  Parser termination: on every token queue parse() ends, by         *)
(* returning or by aborting, and every iteration of a loop of the parser   *)
(* and every call of parse_term and parse_expression that ends leaves the  *)
(* queue strictly shorter than it found it, the tokens put back counted.   *)
(***************************************************************************)
C13_ParserTerminates ==
    /\ pstate = "ready" => parse(parser).ok \in BOOLEAN
    /\ pstate \in {"returned", "aborted"} => ~parser.stalled

\* A class with nested loops and with tokens put back has been parsed.
C13_Witness ==
    /\ pstate = "returned"
    /\ input.well_formed
    /\ Len(parser.lookahead) >= 3
    /\ Len(parser.labels) >= 6
    /\ ~parser.stalled

RECURSIVE Discarded(_)
\* The number of comments one call of next() discards before it returns.
Discarded(text) ==
    LET c == trim_start(text)
        r == remove_n_first_chars(c, ByteLen(COMMENTS(c)))
    IN  IF COMMENTS(c) = <<>> \/ r.panic THEN 0 ELSE 1 + Discarded(r.code)

(***************************************************************************)
(* C14.  Tokenizer progress: a call of next() that returns a token other   *)
(* than EndOfFile leaves the remaining text at least one character         *)
(* shorter, and at least two characters shorter for each comment it        *)
(* discarded; so the loop of tokens_for_file ends for every text, and it   *)
(* returns the tokens, none of which is EndOfFile.  Fails with C5: on a    *)
(* comment or string with a multi-byte character the removal can go past   *)
(* the end of the text, and the loop panics instead of returning.          *)
(***************************************************************************)
C14_TokenizerProgress ==
    [][tstate = "loop"
          => /\ tstate' \in {"loop", "returned"}
             /\ Len(code') <= Len(code) - 2 * Discarded(code)
             /\ tstate' = "loop" =>
                    /\ last'.token # "EndOfFile"
                    /\ Len(code') <= Len(code) - 2 * Discarded(code) - 1
             /\ \A i \in 1..Len(result') : result'[i].token # "EndOfFile"]_vars

=============================================================================
